---- MODULE Spec2Model ----
(***************************************************************************)
(* Cart store, pricing engine and sign-in merge of pro-store-demo.         *)
(*                                                                         *)
(* Two copies of the cart actions exist in the repository:                 *)
(*   src/unnamed/part_002            (build = "part_002")                  *)
(*   src/lib/actions/cart.actions.ts (build = "cart.actions")              *)
(* The variable build says which copy the running application uses; it is  *)
(* chosen in Init and never changes.  The jwt callback of src/auth.ts is   *)
(* common to both.                                                         *)
(*                                                                         *)
(* Money is held in integer cents: the decimal string "35.00" is 3500.     *)
(* calcPrice rounds with round2 of lib/utils; the jwt callback computes    *)
(* its totals itself, in JavaScript numbers, which are modelled as the     *)
(* IEEE-754 doubles they are.                                              *)
(***************************************************************************)
EXTENDS Integers, Sequences, FiniteSets, TLC

\* ---------------------------------------------------------------- bounds
\* Cart records ever created (cart ids are never reused).
MaxCarts == 2
\* Largest item.qty a caller passes to addItemToCart.
MaxQty == 2
\* SpecPricing: lines of the item lists the totals are computed for.
MaxLines == 2
\* SpecSchema: item.qty goes down to -MaxNeg (what cartItemSchema rejects).
MaxNeg == 1
\* SpecSchema: removes are followed until a line's qty is -MaxBelow.
MaxBelow == 1

\* ----------------------------------------------------------- environment
None == "none"
NoCookie == 0
NoCart == 0

Builds == {"part_002", "cart.actions"}
Browsers == {"b1", "b2"}
Users == {"u1"}

\* prisma.product: the catalogue rows (id, price in cents, stock).
Products == {"A", "B", "C", "D"}
Price == [A |-> 1000, B |-> 500, C |-> 5000, D |-> 50]
Stock == [A |-> 2, B |-> 1, C |-> 2, D |-> 2]

\* Product ids the callers of Spec pass.
ProductInputs == {"A", "B"}
\* Product ids the callers of SpecPrices pass: C at 50.00 (two make exactly
\* 100.00, the three of a merge pass the free-shipping threshold) and D at
\* 0.50 (the three of a merge make 1.50, whose 15% is 22.5 cents).
PricedInputs == {"C", "D"}
QtyInputs == 1 .. MaxQty

\* randomUUID(): a session id no cookie holds; the n-th one is 10 + n.
randomUUID(n) == 10 + n

VARIABLES
  build,     \* which copy of the cart actions is deployed
  cookie,    \* browser -> value of its sessionCartId cookie, or NoCookie
  session,   \* browser -> signed-in user id, or None
  carts,     \* prisma.cart: cart id -> record
  nextId,    \* id the next created cart record gets
  last,      \* the most recently completed call and what it returned
  reqs,      \* request slot -> the cart action in flight in it
  tx,        \* the jwt callback's transaction in flight
  claimed,   \* history: <<cookie, user>> pairs whose sign-in claimed or merged
             \* the cookie's cart, with no cart action called since
  revalidated \* products whose page /product/<slug> the most recently
             \* completed call passed to revalidatePath

vars == <<build, cookie, session, carts, nextId, last, reqs, tx, claimed, revalidated>>

\* ------------------------------------------------------- pricing engine
\* round2 of lib/utils, on a value given in hundredths of a cent:
\* round to the nearest cent, ties up.
round2(h) == (h + 50) \div 100


RECURSIVE SumItems(_)
SumItems(items) ==
  IF items = <<>> THEN 0
  ELSE Head(items).price * Head(items).qty + SumItems(Tail(items))

\* Mutant: shipping is free from 100.00 on.
calcPrice_FreeAt100(items) ==
  LET itemsPrice == round2(100 * SumItems(items))
      shippingPrice == IF itemsPrice >= 10000 THEN 0 ELSE 1000
      taxPrice == round2(15 * itemsPrice)
      totalPrice == round2(100 * (itemsPrice + taxPrice + shippingPrice))
  IN [itemsPrice |-> itemsPrice, shippingPrice |-> shippingPrice,
      taxPrice |-> taxPrice, totalPrice |-> totalPrice]

calcPrice(items) ==
  LET itemsPrice == round2(100 * SumItems(items))
      shippingPrice == IF itemsPrice > 10000 THEN 0 ELSE 1000
      taxPrice == round2(15 * itemsPrice)
      totalPrice == round2(100 * (itemsPrice + taxPrice + shippingPrice))
  IN [itemsPrice |-> itemsPrice, shippingPrice |-> shippingPrice,
      taxPrice |-> taxPrice, totalPrice |-> totalPrice]

\* --------------------------------------------------------------- lookup
\* prisma.cart.findFirst({where}): any one of the matching rows (no orderBy),
\* or NoCart when none matches.
findFirst(matching) == IF matching = {} THEN {NoCart} ELSE matching

UserCarts(uid) == {c \in DOMAIN carts : carts[c].userId = uid}
SessionCarts(sid) == {c \in DOMAIN carts : carts[c].sessionId = sid}

\* getMyCart of part_002: the ids it may return for caller (uid, sid).
getMyCart_part002(uid, sid) ==
  IF uid # None /\ UserCarts(uid) # {} THEN UserCarts(uid)
  ELSE IF sid = NoCookie THEN {NoCart}
  ELSE findFirst(SessionCarts(sid))

\* getMyCart of cart.actions.ts (called with a cookie present).
getMyCart_cartActions(uid, sid) ==
  IF uid # None THEN findFirst(UserCarts(uid))
  ELSE findFirst(SessionCarts(sid))

getMyCart(uid, sid) ==
  IF build = "part_002" THEN getMyCart_part002(uid, sid)
  ELSE getMyCart_cartActions(uid, sid)

\* The cart object a lookup hands to its caller: id and items (the totals
\* it also carries are not read by the callers).
Snapshot(c) ==
  IF c = NoCart THEN [id |-> NoCart, items |-> <<>>]
  ELSE [id |-> c, items |-> carts[c].items]

\* ------------------------------------------------------------ validation
\* cartItemSchema: qty is a non-negative integer (the string fields of the
\* items built here are never empty, the price is a catalogue price).
cartItemSchema(item) == item.qty >= 0

\* items.findIndex((x) => x.product === p): 0 when absent.
findIndex(items, p) ==
  IF \E i \in 1 .. Len(items) : items[i].product = p
  THEN CHOOSE i \in 1 .. Len(items) :
         items[i].product = p /\ \A j \in 1 .. (i - 1) : items[j].product # p
  ELSE 0

NewCart(uid, sid, items) ==
  LET t == calcPrice(items)
  IN [sessionId |-> sid, userId |-> uid, items |-> items,
      itemsPrice |-> t.itemsPrice, shippingPrice |-> t.shippingPrice,
      taxPrice |-> t.taxPrice, totalPrice |-> t.totalPrice]

\* prisma.cart.update({where: {id}, data: {items, ...totals}}) on store st.
UpdateItems(st, id, items, t) ==
  [st EXCEPT ![id] = [@ EXCEPT !.items = items,
                               !.itemsPrice = t.itemsPrice,
                               !.shippingPrice = t.shippingPrice,
                               !.taxPrice = t.taxPrice,
                               !.totalPrice = t.totalPrice]]

Failed(kind) == [ok |-> FALSE, kind |-> kind, carts |-> carts, nextId |-> nextId]

\* The item a caller passes for product p with quantity q (the product page
\* passes the catalogue price; for an unknown product any price string).
Item(p, q) ==
  [product |-> p, qty |-> q, price |-> IF p \in Products THEN Price[p] ELSE 500]

\* ----------------------------------------------------------- addItemToCart
\* The steps of addItemToCart after the cart lookup returned snap, for caller
\* (uid, sid), on the current store: what it returns and the store it leaves.
\* The existing-cart branch on the item list it was handed: the new list, or
\* the error thrown.
\* Mutant: an existing line grows by the item.qty passed in.
AddLines_ByQty(items, item) ==
  LET idx == findIndex(items, item.product)
      existed == idx # 0
      nextQty == items[idx].qty + item.qty
  IN IF existed /\ Stock[item.product] < nextQty
     THEN [ok |-> FALSE, kind |-> "stock", items |-> items]
     ELSE IF ~existed /\ Stock[item.product] < item.qty
     THEN [ok |-> FALSE, kind |-> "stock", items |-> items]
     ELSE [ok |-> TRUE, kind |-> IF existed THEN "inc" ELSE "append",
           items |-> IF existed THEN [items EXCEPT ![idx].qty = nextQty]
                     ELSE Append(items, item)]

AddLines(items, item) ==
  LET idx == findIndex(items, item.product)
      existed == idx # 0
      nextQty == items[idx].qty + 1
  IN IF existed /\ Stock[item.product] < nextQty
     THEN [ok |-> FALSE, kind |-> "stock", items |-> items]
     ELSE IF ~existed /\ Stock[item.product] < item.qty
     THEN [ok |-> FALSE, kind |-> "stock", items |-> items]
     ELSE [ok |-> TRUE, kind |-> IF existed THEN "inc" ELSE "append",
           items |-> IF existed THEN [items EXCEPT ![idx].qty = nextQty]
                     ELSE Append(items, item)]

\* Mutant: the existing-cart branch writes the new list first and compares
\* with the stock afterwards.
AddWrite_LateCheck(snap, uid, sid, item) ==
  IF ~cartItemSchema(item) THEN Failed("invalid")
  ELSE IF item.product \notin Products THEN Failed("no-product")
  ELSE IF snap.id = NoCart
  THEN LET ensuredSessionId == IF sid = NoCookie THEN randomUUID(nextId) ELSE sid
       IN [ok |-> TRUE, kind |-> "create",
           carts |-> carts @@ (nextId :> NewCart(uid, ensuredSessionId, <<item>>)),
           nextId |-> nextId + 1]
  ELSE LET a == AddLines(snap.items, item)
           idx == findIndex(snap.items, item.product)
           items == IF idx # 0 THEN [snap.items EXCEPT ![idx].qty = @ + 1]
                    ELSE Append(snap.items, item)
       IN IF snap.id \notin DOMAIN carts THEN Failed("store")
          ELSE [ok |-> a.ok, kind |-> a.kind,
                carts |-> UpdateItems(carts, snap.id, items, calcPrice(items)),
                nextId |-> nextId]

AddWrite(snap, uid, sid, item) ==
  IF ~cartItemSchema(item) THEN Failed("invalid")
  ELSE IF item.product \notin Products THEN Failed("no-product")
  ELSE IF snap.id = NoCart
  THEN LET ensuredSessionId == IF sid = NoCookie THEN randomUUID(nextId) ELSE sid
       IN [ok |-> TRUE, kind |-> "create",
           carts |-> carts @@ (nextId :> NewCart(uid, ensuredSessionId, <<item>>)),
           nextId |-> nextId + 1]
  ELSE LET a == AddLines(snap.items, item)
       IN IF ~a.ok THEN Failed(a.kind)
          ELSE IF snap.id \notin DOMAIN carts THEN Failed("store")
          ELSE [ok |-> TRUE, kind |-> a.kind,
                carts |-> UpdateItems(carts, snap.id, a.items, calcPrice(a.items)),
                nextId |-> nextId]

\* ------------------------------------------------------ removeItemFromCart
\* part_002: items.splice(idx, 1).
Splice(items, idx) ==
  [i \in 1 .. (Len(items) - 1) |-> IF i < idx THEN items[i] ELSE items[i + 1]]

\* cart.actions.ts: items.filter((x) => x.product !== exist.product).
RECURSIVE FilterOut(_, _)
FilterOut(items, p) ==
  IF items = <<>> THEN <<>>
  ELSE IF Head(items).product = p THEN FilterOut(Tail(items), p)
  ELSE <<Head(items)>> \o FilterOut(Tail(items), p)

\* Mutant: removing a line of qty 1 empties the list.
RemoveLine_Clear(items, idx) == <<>>

RemoveLine(items, idx) ==
  IF build = "part_002" THEN Splice(items, idx)
  ELSE FilterOut(items, items[idx].product)

\* Mutant: a product that is not in the list is no error.
RemoveLines_Lenient(items, productId) ==
  LET idx == findIndex(items, productId)
  IN IF idx = 0 THEN [ok |-> TRUE, kind |-> "remove", items |-> items]
     ELSE [ok |-> TRUE, kind |-> "remove",
           items |-> IF items[idx].qty = 1 THEN RemoveLine(items, idx)
                     ELSE [items EXCEPT ![idx].qty = items[idx].qty - 1]]

\* The item list removeItemFromCart builds from the one it was handed, or
\* the error thrown.
RemoveLines(items, productId) ==
  LET idx == findIndex(items, productId)
  IN IF idx = 0 THEN [ok |-> FALSE, kind |-> "no-item", items |-> items]
     ELSE [ok |-> TRUE, kind |-> "remove",
           items |-> IF items[idx].qty = 1 THEN RemoveLine(items, idx)
                     ELSE [items EXCEPT ![idx].qty = items[idx].qty - 1]]

RemoveWrite(snap, productId) ==
  IF productId \notin Products THEN Failed("no-product")
  ELSE IF snap.id = NoCart THEN Failed("no-cart")
  ELSE LET a == RemoveLines(snap.items, productId)
       IN IF ~a.ok THEN Failed(a.kind)
          ELSE IF snap.id \notin DOMAIN carts THEN Failed("store")
          ELSE [ok |-> TRUE, kind |-> "remove",
                carts |-> UpdateItems(carts, snap.id, a.items, calcPrice(a.items)),
                nextId |-> nextId]

\* ------------------------------------------- numbers of the jwt callback
\* The jwt callback computes its totals with JavaScript numbers, IEEE-754
\* doubles.  A double x >= 0 is held as the natural number x * 2^Scale, and a
\* natural number as its limbs of LimbBits bits, least significant first (the
\* empty sequence is 0).  Every double met here is 0 or at least 2^-10, so it
\* is a whole multiple of 2^-Scale.
LimbBits == 15
Base == 2^LimbBits
\* Bits of a double's significand.
Precision == 53
Scale == 62

RECURSIVE ToLimbs(_)
ToLimbs(n) == IF n = 0 THEN <<>> ELSE <<n % Base>> \o ToLimbs(n \div Base)

RECURSIVE FromLimbs(_)
FromLimbs(a) == IF a = <<>> THEN 0 ELSE Head(a) + Base * FromLimbs(Tail(a))

RECURSIVE Norm(_)
Norm(a) ==
  IF a # <<>> /\ a[Len(a)] = 0 THEN Norm(SubSeq(a, 1, Len(a) - 1)) ELSE a

RECURSIVE AddC(_, _, _)
AddC(a, b, carry) ==
  IF a = <<>> /\ b = <<>> THEN ToLimbs(carry)
  ELSE LET s == (IF a = <<>> THEN 0 ELSE Head(a))
                + (IF b = <<>> THEN 0 ELSE Head(b)) + carry
       IN <<s % Base>> \o AddC(IF a = <<>> THEN a ELSE Tail(a),
                               IF b = <<>> THEN b ELSE Tail(b), s \div Base)

AddL(a, b) == AddC(a, b, 0)

RECURSIVE MulC(_, _, _)
MulC(a, k, carry) ==
  IF a = <<>> THEN ToLimbs(carry)
  ELSE LET s == Head(a) * k + carry
       IN <<s % Base>> \o MulC(Tail(a), k, s \div Base)

\* a * k for 0 <= k < Base.
MulSmall(a, k) == Norm(MulC(a, k, 0))

Up1(a) == IF a = <<>> THEN a ELSE <<0>> \o a

RECURSIVE MulL(_, _)
MulL(a, b) ==
  IF b = <<>> THEN <<>> ELSE AddL(MulSmall(a, Head(b)), Up1(MulL(a, Tail(b))))

\* Quotient limbs and remainder of a by k, 0 < k <= Base.
RECURSIVE DivC(_, _)
DivC(a, k) ==
  IF a = <<>> THEN [q |-> <<>>, r |-> 0]
  ELSE LET t == DivC(Tail(a), k)
           n == t.r * Base + Head(a)
       IN [q |-> <<n \div k>> \o t.q, r |-> n % k]

Zeros(n) == [i \in 1 .. n |-> 0]

\* a * 2^n.
ShiftLeft(a, n) ==
  IF a = <<>> THEN a ELSE Zeros(n \div LimbBits) \o MulSmall(a, 2^(n % LimbBits))

\* a \div 2^n, and whether a bit was shifted out.
ShiftRight(a, n) ==
  LET w == n \div LimbBits
      d == DivC(SubSeq(a, w + 1, Len(a)), 2^(n % LimbBits))
  IN [q |-> Norm(d.q),
      sticky |-> d.r # 0 \/ \E i \in 1 .. w : i <= Len(a) /\ a[i] # 0]

RECURSIVE Bits(_)
Bits(x) == IF x = 0 THEN 0 ELSE 1 + Bits(x \div 2)

BitLen(a) == IF a = <<>> THEN 0 ELSE LimbBits * (Len(a) - 1) + Bits(a[Len(a)])

Odd(a) == a # <<>> /\ Head(a) % 2 = 1

\* The result of an arithmetic operation whose exact value is a: a rounded to
\* Precision significant bits, to nearest, ties to even.
Round53(a) ==
  LET n == BitLen(a)
  IN IF n <= Precision THEN a
     ELSE LET sh == n - Precision
              s1 == ShiftRight(a, sh - 1)
              s2 == ShiftRight(s1.q, 1)
              up == Odd(s1.q) /\ (s1.sticky \/ Odd(s2.q))
          IN ShiftLeft(IF up THEN AddL(s2.q, <<1>>) ELSE s2.q, sh)

\* The double of the integer k.
Int2D(k) == ShiftLeft(ToLimbs(k), Scale)

\* k / 100 for an integer k >= 0: the double nearest to the quotient.
Quot100(k) ==
  LET d == DivC(ShiftLeft(ToLimbs(k), Scale + LimbBits - 1), 100)
      q2 == AddL(MulSmall(Norm(d.q), 2), IF d.r # 0 THEN <<1>> ELSE <<>>)
  IN ShiftRight(Round53(q2), LimbBits).q

\* Number("d.dd"), the decimal string given as its cents: the double nearest
\* to cents / 100.
Number(cents) == Quot100(cents)

\* x * y and x + y on doubles; x * k for the double of an integer k < Base.
Mul(x, y) == ShiftRight(Round53(MulL(x, y)), Scale).q
Add(x, y) == Round53(AddL(x, y))
Times(x, k) == Round53(MulSmall(x, k))

Floor(x) == FromLimbs(ShiftRight(x, Scale).q)
Half == ShiftLeft(<<1>>, Scale - 1)

\* Math.round(x): the integer floor(x + 0.5), exactly.
MathRound(x) == Floor(AddL(x, Half))

\* x.toFixed(2), as cents: the integer n with n / 100 nearest to x, the
\* larger one of two.
toFixed2(x) == Floor(AddL(MulSmall(x, 100), Half))

\* x > k for an integer k.
Gt(x, k) ==
  LET s == ShiftRight(x, Scale)
  IN FromLimbs(s.q) > k \/ (FromLimbs(s.q) = k /\ s.sticky)

\* --------------------------------------------------- jwt: merge on sign-in
\* byProduct.set(it.product, v): replace the entry of that key in place, or
\* append a new entry (a Map keeps insertion order).
MapSet(m, v) ==
  LET i == findIndex(m, v.product)
  IN IF i = 0 THEN Append(m, v) ELSE [m EXCEPT ![i] = v]

RECURSIVE SetAll(_, _)
SetAll(m, its) ==
  IF its = <<>> THEN m ELSE SetAll(MapSet(m, Head(its)), Tail(its))

RECURSIVE AddSession(_, _)
AddSession(m, its) ==
  IF its = <<>> THEN m
  ELSE LET it == Head(its)
           i == findIndex(m, it.product)
           v == IF i # 0 THEN [m[i] EXCEPT !.qty = m[i].qty + it.qty] ELSE it
       IN AddSession(MapSet(m, v), Tail(its))

\* Mutant: the two lists are concatenated, nothing is merged by product.
mergedItems_Concat(uItems, sItems) == uItems \o sItems

mergedItems(uItems, sItems) == AddSession(SetAll(<<>>, uItems), sItems)

\* mergedItems.reduce((acc, it) => acc + Number(it.price) * Number(it.qty), 0)
RECURSIVE Reduce(_, _)
Reduce(items, acc) ==
  IF items = <<>> THEN acc
  ELSE Reduce(Tail(items),
              Add(acc, Times(Number(Head(items).price), Head(items).qty)))

\* The totals the jwt callback computes itself (0.15 is Number("0.15")), and
\* writes with toFixed(2).
MergeTotals(items) ==
  LET itemsPriceNum == Reduce(items, Int2D(0))
      shippingPriceNum == IF Gt(itemsPriceNum, 100) THEN Int2D(0) ELSE Int2D(10)
      taxPriceNum ==
        Quot100(MathRound(Times(Mul(itemsPriceNum, Number(15)), 100)))
      totalPriceNum ==
        Quot100(MathRound(Times(Add(Add(itemsPriceNum, taxPriceNum), shippingPriceNum),
                                100)))
  IN [itemsPrice |-> toFixed2(itemsPriceNum),
      shippingPrice |-> toFixed2(shippingPriceNum),
      taxPrice |-> toFixed2(taxPriceNum),
      totalPrice |-> toFixed2(totalPriceNum)]

\* tx.cart.delete({where: {id}}).
DeleteCart(st, id) == [c \in (DOMAIN st) \ {id} |-> st[c]]

\* Mutant: the claim writes the user id and empties the item list.
ClaimCart_Emptied(st, id, uid) == [st EXCEPT ![id].userId = uid, ![id].items = <<>>]

\* tx.cart.update({where: {id: sessionCart.id}, data: {userId}}).
ClaimCart(st, id, uid) == [st EXCEPT ![id].userId = uid]

\* The body of the transaction, given what its two findFirst calls returned.
MergeKind(sc, uc) ==
  IF sc = NoCart THEN "none" ELSE IF uc = NoCart THEN "claim" ELSE "merge"

MergeEffect(st, sc, uc, uid) ==
  IF sc = NoCart THEN st
  ELSE IF uc = NoCart THEN ClaimCart(st, sc, uid)
  ELSE LET items == mergedItems(st[uc].items, st[sc].items)
       IN DeleteCart(UpdateItems(st, uc, items, MergeTotals(items)), sc)

\* ------------------------------------------------------------------ calls
Last(op, ok, kind) == [op |-> op, ok |-> ok, kind |-> kind]

\* revalidatePath(`/product/${product.slug}`) of a cart action on product p:
\* the statement after the awaited create / update and before the return of
\* { success: true }, so it runs exactly when the action gets that far.
Revalidate(ok, p) == IF ok THEN {p} ELSE {}

\* Request slots: cart actions that may be in flight at once.
Slots == {"r1", "r2"}

IdleReq ==
  [pc |-> "idle", op |-> "none", uid |-> None, sid |-> NoCookie, p |-> "A", q |-> 0,
   snap |-> [id |-> NoCart, items |-> <<>>], ok |-> FALSE]

IdleTx ==
  [pc |-> "idle", b |-> "b1", u |-> None, sc |-> NoCart, uc |-> NoCart, items |-> <<>>]

\* The transaction is over (committed or rolled back).
ClosedTx == [IdleTx EXCEPT !.pc = "closed"]

Init ==
  /\ build \in Builds
  /\ cookie \in {[b1 |-> 1, b2 |-> 2], [b1 |-> 1, b2 |-> NoCookie]}
  /\ session = [b \in Browsers |-> None]
  /\ carts = <<>>
  /\ nextId = 1
  /\ last = Last("init", TRUE, "init")
  /\ reqs = [r \in Slots |-> IdleReq]
  /\ tx = IdleTx
  /\ claimed = {}
  /\ revalidated = {}

\* addItemToCart(data) called from browser b, as one step.
AddItemToCart(b, p, q) ==
  LET uid == session[b]
      sid == cookie[b]
  IN /\ IF build = "cart.actions" /\ sid = NoCookie
        THEN /\ last' = Last("add", FALSE, "no-cookie")
             /\ revalidated' = {}
             /\ UNCHANGED <<carts, nextId>>
        ELSE \E c \in getMyCart(uid, sid) :
               LET r == AddWrite(Snapshot(c), uid, sid, Item(p, q))
               IN /\ r.nextId <= MaxCarts + 1
                  /\ carts' = r.carts
                  /\ nextId' = r.nextId
                  /\ last' = Last("add", r.ok, r.kind)
                  /\ revalidated' = Revalidate(r.ok, p)
     /\ claimed' = {}
     /\ UNCHANGED <<build, cookie, session, reqs, tx>>

\* removeItemFromCart(productId) called from browser b, as one step.
RemoveItemFromCart(b, p) ==
  LET uid == session[b]
      sid == cookie[b]
  IN /\ IF build = "cart.actions" /\ sid = NoCookie
        THEN /\ last' = Last("remove", FALSE, "no-cookie")
             /\ revalidated' = {}
             /\ UNCHANGED <<carts, nextId>>
        ELSE \E c \in getMyCart(uid, sid) :
               LET r == RemoveWrite(Snapshot(c), p)
               IN /\ carts' = r.carts
                  /\ nextId' = r.nextId
                  /\ last' = Last("remove", r.ok, r.kind)
                  /\ revalidated' = Revalidate(r.ok, p)
     /\ claimed' = {}
     /\ UNCHANGED <<build, cookie, session, reqs, tx>>

\* signIn / signUp of user u on browser b: the jwt callback with its
\* transaction run as one step.  The callback calls no revalidatePath.
SignIn(b, u) ==
  /\ session[b] = None
  /\ session' = [session EXCEPT ![b] = u]
  /\ revalidated' = {}
  /\ IF cookie[b] = NoCookie
     THEN /\ carts' = carts
          /\ last' = Last("signIn", TRUE, "no-cookie")
          /\ claimed' = claimed
     ELSE \E sc \in findFirst(SessionCarts(cookie[b])) :
          \E uc \in (IF sc = NoCart THEN {NoCart} ELSE findFirst(UserCarts(u))) :
            /\ carts' = MergeEffect(carts, sc, uc, u)
            /\ last' = Last("signIn", TRUE, MergeKind(sc, uc))
            /\ claimed' = IF sc = NoCart THEN claimed
                          ELSE claimed \cup {<<cookie[b], u>>}
  /\ UNCHANGED <<build, cookie, nextId, reqs, tx>>

\* signOut on browser b: the auth session ends, the cookie stays.
SignOut(b) ==
  /\ session[b] # None
  /\ session' = [session EXCEPT ![b] = None]
  /\ last' = Last("signOut", TRUE, "signOut")
  /\ revalidated' = {}
  /\ UNCHANGED <<build, cookie, carts, nextId, reqs, tx, claimed>>

Next ==
  \/ \E b \in Browsers, p \in ProductInputs, q \in QtyInputs : AddItemToCart(b, p, q)
  \/ \E b \in Browsers, p \in ProductInputs : RemoveItemFromCart(b, p)
  \/ \E b \in Browsers, u \in Users : SignIn(b, u)
  \/ \E b \in Browsers : SignOut(b)

Spec == Init /\ [][Next]_vars

\* getMyCart of cart.actions.ts throws when the caller has no cookie, before
\* it looks at the user id; getMyCart of part_002 never throws by itself.
LookupThrows(b) == build = "cart.actions" /\ cookie[b] = NoCookie

\* getMyCart() called from browser b (by a page or a component): it returns
\* a cart or undefined, or the error it throws reaches its caller (it has no
\* try / catch).
GetMyCart(b) ==
  /\ IF LookupThrows(b)
     THEN last' = Last("getMyCart", FALSE, "throw")
     ELSE \E c \in getMyCart(session[b], cookie[b]) :
            last' = Last("getMyCart", TRUE, IF c = NoCart THEN "undefined" ELSE "cart")
  /\ revalidated' = {}
  /\ UNCHANGED <<build, cookie, session, carts, nextId, reqs, tx, claimed>>

\* The operation op called from browser b reaches a store call (findFirst,
\* create, update).
ReachesStore(b, op) ==
  IF op = "getMyCart" /\ build = "part_002"
  THEN session[b] # None \/ cookie[b] # NoCookie
  ELSE ~LookupThrows(b)

\* The store fails at a store call of op called from browser b: nothing is
\* written; addItemToCart and removeItemFromCart catch the error and return
\* { success: false, message }, getMyCart lets it through.
StoreError(b, op) ==
  /\ ReachesStore(b, op)
  /\ last' = Last(op, FALSE, IF op = "getMyCart" THEN "throw" ELSE "store")
  /\ claimed' = IF op = "getMyCart" THEN claimed ELSE {}
  /\ revalidated' = {}
  /\ UNCHANGED <<build, cookie, session, carts, nextId, reqs, tx>>

\* The public cart operations, the store failing or not, among sign-ins and
\* sign-outs.
NextApi ==
  \/ \E b \in Browsers, p \in ProductInputs : AddItemToCart(b, p, 1)
  \/ \E b \in Browsers, p \in ProductInputs : RemoveItemFromCart(b, p)
  \/ \E b \in Browsers : GetMyCart(b)
  \/ \E b \in Browsers, op \in {"add", "remove", "getMyCart"} : StoreError(b, op)
  \/ \E b \in Browsers, u \in Users : SignIn(b, u)
  \/ \E b \in Browsers : SignOut(b)

SpecApi == Init /\ [][NextApi]_vars

\* Whole calls on the products of PricedInputs, one unit at a time.
NextPrices ==
  \/ \E b \in Browsers, p \in PricedInputs : AddItemToCart(b, p, 1)
  \/ \E b \in Browsers, p \in PricedInputs : RemoveItemFromCart(b, p)
  \/ \E b \in Browsers, u \in Users : SignIn(b, u)
  \/ \E b \in Browsers : SignOut(b)

SpecPrices == Init /\ [][NextPrices]_vars

\* The store rejects the prisma.cart.create / prisma.cart.update of a cart
\* action called from browser b that got as far as that statement: nothing
\* is written (the item list the action built, in cart.actions.ts by changing
\* the cart object getMyCart returned, is its own), the error is caught and
\* the action returns { success: false, message }.
WriteError(b, op, p, q) ==
  /\ ~LookupThrows(b)
  /\ \E c \in getMyCart(session[b], cookie[b]) :
       IF op = "add" THEN AddWrite(Snapshot(c), session[b], cookie[b], Item(p, q)).ok
       ELSE RemoveWrite(Snapshot(c), p).ok
  /\ last' = Last(op, FALSE, "store")
  /\ claimed' = {}
  /\ revalidated' = {}
  /\ UNCHANGED <<build, cookie, session, carts, nextId, reqs, tx>>

\* Product ids the callers of SpecFail pass: two of the catalogue and one
\* that prisma.product.findFirst does not find.
FailInputs == {"A", "B", "X"}
\* item.qty they pass: one that cartItemSchema rejects, and 1.
FailQtyInputs == {0 - MaxNeg, 1}

\* The two cart actions called with good and bad arguments, the store
\* failing at their write or not, among sign-ins.
NextFail ==
  \/ \E b \in Browsers, p \in FailInputs, q \in FailQtyInputs : AddItemToCart(b, p, q)
  \/ \E b \in Browsers, p \in FailInputs : RemoveItemFromCart(b, p)
  \/ \E b \in Browsers, p \in ProductInputs : WriteError(b, "add", p, 1)
  \/ \E b \in Browsers, p \in ProductInputs : WriteError(b, "remove", p, 0)
  \/ \E b \in Browsers, u \in Users : SignIn(b, u)

SpecFail == Init /\ [][NextFail]_vars

\* Two accounts signing in and out on the two browsers.
Accounts == {"u1", "u2"}

\* Whole calls on product A, one unit at a time, with sign-ins of either
\* account.
NextAccounts ==
  \/ \E b \in Browsers : AddItemToCart(b, "A", 1)
  \/ \E b \in Browsers : RemoveItemFromCart(b, "A")
  \/ \E b \in Browsers, u \in Accounts : SignIn(b, u)
  \/ \E b \in Browsers : SignOut(b)

SpecAccounts == Init /\ [][NextAccounts]_vars

\* ------------------------------------------------- the totals on their own
\* Price strings of line items, in cents: 0.50 and 1.50 (15% of 1.50 is 22.5
\* cents), 10.00, and 33.33 and 66.67 (no whole number of cents of tax).
CentPrices == {50, 150, 1000, 3333, 6667}

PricedLines(p) ==
  {[product |-> p, qty |-> q, price |-> c] : q \in 1 .. (MaxQty + 1), c \in CentPrices}

\* The product of the n-th line.
LineProducts == <<"A", "B", "C", "D">>

\* The item lists of up to n lines, one line per product.
RECURSIVE ItemLists(_)
ItemLists(n) ==
  IF n = 0 THEN {<<>>}
  ELSE ItemLists(n - 1)
       \cup {Append(l, i) : l \in {m \in ItemLists(n - 1) : Len(m) = n - 1},
                            i \in PricedLines(LineProducts[n])}

\* A store holding one anonymous cart, written by addItemToCart.
InitPricing ==
  /\ build \in Builds
  /\ cookie = [b1 |-> 1, b2 |-> 2]
  /\ session = [b \in Browsers |-> None]
  /\ \E items \in ItemLists(MaxLines) \ {<<>>} : carts = (1 :> NewCart(None, 1, items))
  /\ nextId = 2
  /\ last = Last("init", TRUE, "init")
  /\ reqs = [r \in Slots |-> IdleReq]
  /\ tx = IdleTx
  /\ claimed = {}
  /\ revalidated = {}

\* The totals as the cart actions compute and persist them.
Reprice ==
  /\ \E c \in DOMAIN carts :
       carts' = UpdateItems(carts, c, carts[c].items, calcPrice(carts[c].items))
  /\ last' = Last("calcPrice", TRUE, "calcPrice")
  /\ revalidated' = {}
  /\ UNCHANGED <<build, cookie, session, nextId, reqs, tx, claimed>>

\* The totals as the jwt callback computes and persists them.
MergeReprice ==
  /\ \E c \in DOMAIN carts :
       carts' = UpdateItems(carts, c, carts[c].items, MergeTotals(carts[c].items))
  /\ last' = Last("signIn", TRUE, "totals")
  /\ revalidated' = {}
  /\ UNCHANGED <<build, cookie, session, nextId, reqs, tx, claimed>>

NextPricing ==
  \/ Reprice
  \/ MergeReprice

SpecPricing == InitPricing /\ [][NextPricing]_vars

\* The two cart actions called by anonymous callers, item.qty ranging over
\* what cartItemSchema accepts (0 and 1) and what it rejects (negative).
SchemaQtyInputs == (0 - MaxNeg) .. 1

\* No line has gone below -MaxBelow.
QtyFloor(st) ==
  \A c \in DOMAIN st : \A i \in 1 .. Len(st[c].items) : st[c].items[i].qty >= 0 - MaxBelow

NextSchema ==
  \/ \E b \in Browsers, p \in ProductInputs, q \in SchemaQtyInputs : AddItemToCart(b, p, q)
  \/ \E b \in Browsers, p \in ProductInputs :
       RemoveItemFromCart(b, p) /\ QtyFloor(carts')

SpecSchema == Init /\ [][NextSchema]_vars

\* ------------------------------------------- the same calls, step by step
\* A cart action's read: cookies(), auth() and getMyCart() (its one or two
\* findFirst calls taken together).  The request then holds the cart object
\* it was handed.
StartReq(r, b, op, p, q) ==
  /\ reqs[r].pc = "idle"
  /\ IF build = "cart.actions" /\ cookie[b] = NoCookie
     THEN /\ reqs' = [reqs EXCEPT ![r] = [IdleReq EXCEPT !.pc = "done", !.op = op,
                                                        !.p = p, !.q = q]]
          /\ last' = Last(op, FALSE, "no-cookie")
          /\ claimed' = {}
          /\ revalidated' = {}
     ELSE /\ \E c \in getMyCart(session[b], cookie[b]) :
               reqs' = [reqs EXCEPT ![r] =
                          [pc |-> "write", op |-> op, uid |-> session[b],
                           sid |-> cookie[b], p |-> p, q |-> q,
                           snap |-> Snapshot(c), ok |-> FALSE]]
          /\ last' = last
          /\ claimed' = claimed
          /\ revalidated' = revalidated
  /\ UNCHANGED <<build, cookie, session, carts, nextId, tx>>

\* The rest of the action: validation, product lookup, the branch taken and
\* its prisma.cart.create / prisma.cart.update, on the store as it is now.
WriteReq(r) ==
  /\ reqs[r].pc = "write"
  /\ LET q == reqs[r]
         res == IF q.op = "add" THEN AddWrite(q.snap, q.uid, q.sid, Item(q.p, q.q))
                ELSE RemoveWrite(q.snap, q.p)
     IN /\ res.nextId <= MaxCarts + 1
        /\ carts' = res.carts
        /\ nextId' = res.nextId
        /\ reqs' = [reqs EXCEPT ![r] = [q EXCEPT !.pc = "done", !.ok = res.ok,
                                                 !.uid = None, !.sid = NoCookie]]
        /\ last' = Last(q.op, res.ok, res.kind)
        /\ revalidated' = Revalidate(res.ok, q.p)
  /\ claimed' = {}
  /\ UNCHANGED <<build, cookie, session, tx>>

\* Mutant: the update is sent on the plain client, outside the transaction.
StoreAfterStatement_NoTx(st, t) ==
  IF t.uc = NoCart THEN ClaimCart(st, t.sc, t.u)
  ELSE UpdateItems(st, t.uc, t.items, MergeTotals(t.items))

\* What the other connections see of the store after a statement of the open
\* transaction: nothing of it, until the transaction commits.
StoreAfterStatement(st, t) == st

\* signIn on browser b: the jwt callback opens the transaction and runs its
\* two findFirst calls.
TxBegin(b, u) ==
  /\ tx.pc = "idle"
  /\ session[b] = None
  /\ cookie[b] # NoCookie
  /\ \E sc \in findFirst(SessionCarts(cookie[b])) :
     \E uc \in (IF sc = NoCart THEN {NoCart} ELSE findFirst(UserCarts(u))) :
       tx' = [pc |-> IF sc = NoCart THEN "commit" ELSE "found",
              b |-> b, u |-> u, sc |-> sc, uc |-> uc,
              items |-> IF MergeKind(sc, uc) = "merge"
                        THEN mergedItems(carts[uc].items, carts[sc].items)
                        ELSE <<>>]
  /\ UNCHANGED <<build, cookie, session, carts, nextId, last, reqs, claimed, revalidated>>

\* tx.cart.update: the claim of the session cart, or the merged items and
\* totals onto the user cart.
TxUpdate ==
  /\ tx.pc = "found"
  /\ LET target == IF tx.uc = NoCart THEN tx.sc ELSE tx.uc
     IN IF target \notin DOMAIN carts
        THEN /\ tx' = IdleTx
             /\ last' = Last("signIn", FALSE, "store")
             /\ revalidated' = {}
             /\ carts' = carts
        ELSE /\ tx' = [tx EXCEPT !.pc = IF tx.uc = NoCart THEN "commit" ELSE "updated"]
             /\ last' = last
             /\ revalidated' = revalidated
             /\ carts' = StoreAfterStatement(carts, tx)
  /\ UNCHANGED <<build, cookie, session, nextId, reqs, claimed>>

\* tx.cart.delete of the session cart.
TxDelete ==
  /\ tx.pc = "updated"
  /\ IF tx.sc \notin DOMAIN carts
     THEN /\ tx' = ClosedTx
          /\ last' = Last("signIn", FALSE, "store")
          /\ revalidated' = {}
     ELSE /\ tx' = [tx EXCEPT !.pc = "commit"]
          /\ last' = last
          /\ revalidated' = revalidated
  /\ UNCHANGED <<build, cookie, session, carts, nextId, reqs, claimed>>

\* The transaction's callback has returned: its writes take effect together
\* and the sign-in completes.
TxCommit ==
  /\ tx.pc = "commit"
  /\ carts' = IF tx.sc = NoCart THEN carts
              ELSE IF tx.uc = NoCart THEN ClaimCart(carts, tx.sc, tx.u)
              ELSE DeleteCart(UpdateItems(carts, tx.uc, tx.items, MergeTotals(tx.items)),
                              tx.sc)
  /\ session' = [session EXCEPT ![tx.b] = tx.u]
  /\ last' = Last("signIn", TRUE, MergeKind(tx.sc, tx.uc))
  /\ revalidated' = {}
  /\ tx' = ClosedTx
  /\ claimed' = IF tx.sc = NoCart THEN claimed
                ELSE claimed \cup {<<cookie[tx.b], tx.u>>}
  /\ UNCHANGED <<build, cookie, nextId, reqs>>

\* A store error at a statement of the transaction: it is rolled back and the
\* callback throws.
TxFail ==
  /\ tx.pc \in {"found", "updated", "commit"}
  /\ tx' = ClosedTx
  /\ last' = Last("signIn", FALSE, "store")
  /\ revalidated' = {}
  /\ UNCHANGED <<build, cookie, session, carts, nextId, reqs, claimed>>

\* No cart action is in flight.
Quiet == \A r \in Slots : reqs[r].pc = "idle"

\* The slots are taken in order (they are interchangeable).
InOrder(r) == r = "r1" \/ reqs["r1"].pc # "idle"

\* A history of whole calls, then two cart actions of browser b1 running at
\* once, one per slot.
NextConc ==
  \/ \E b \in Browsers, p \in ProductInputs : Quiet /\ AddItemToCart(b, p, 1)
  \/ \E b \in Browsers, p \in ProductInputs : Quiet /\ RemoveItemFromCart(b, p)
  \/ \E b \in Browsers, u \in Users : Quiet /\ SignIn(b, u)
  \/ \E b \in Browsers : Quiet /\ SignOut(b)
  \/ \E r \in Slots, p \in ProductInputs : InOrder(r) /\ StartReq(r, "b1", "add", p, 1)
  \/ \E r \in Slots, p \in ProductInputs : InOrder(r) /\ StartReq(r, "b1", "remove", p, 0)
  \/ \E r \in Slots : WriteReq(r)

SpecConc == Init /\ [][NextConc]_vars

\* The transaction has not ended yet.
Open == tx.pc # "closed"

\* Whole calls (cart actions on product A, sign-ins, sign-outs) before and
\* during one sign-in whose transaction runs statement by statement.
NextTx ==
  \/ \E b \in Browsers : Open /\ AddItemToCart(b, "A", 1)
  \/ \E b \in Browsers : Open /\ RemoveItemFromCart(b, "A")
  \/ \E b \in Browsers, u \in Users : tx.pc = "idle" /\ SignIn(b, u)
  \/ \E b \in Browsers : Open /\ SignOut(b)
  \/ \E b \in Browsers, u \in Users : TxBegin(b, u)
  \/ TxUpdate
  \/ TxDelete
  \/ TxCommit
  \/ TxFail

SpecTx == Init /\ [][NextTx]_vars

\* ================================================================ claims
Totals(rec) ==
  [itemsPrice |-> rec.itemsPrice, shippingPrice |-> rec.shippingPrice,
   taxPrice |-> rec.taxPrice, totalPrice |-> rec.totalPrice]

\* The step completes a sign-in of user u on browser b.
SignInStep(b, u) == session[b] = None /\ session'[b] = u

RECURSIVE QtyOf(_, _)
QtyOf(items, p) ==
  IF items = <<>> THEN 0
  ELSE (IF Head(items).product = p THEN Head(items).qty ELSE 0) + QtyOf(Tail(items), p)

LinesOf(items, p) == Cardinality({i \in 1 .. Len(items) : items[i].product = p})

\* The item list request r would leave, run alone on the list items.
ReqEffect(r, items) ==
  IF reqs[r].op = "add" THEN AddLines(items, Item(reqs[r].p, reqs[r].q)).items
  ELSE RemoveLines(items, reqs[r].p).items

\* C1: two cart actions that ran at once on the same cart (both read the same
\* cart object, both wrote) leave the items and totals that running them one
\* after the other, in one of the two orders, leaves.
C1_SerialOutcome ==
  \A r1, r2 \in Slots :
    ( /\ r1 # r2
      /\ reqs[r1].pc = "done" /\ reqs[r2].pc = "done"
      /\ reqs[r1].ok /\ reqs[r2].ok
      /\ reqs[r1].snap.id # NoCart
      /\ reqs[r1].snap = reqs[r2].snap
      /\ reqs[r1].snap.id \in DOMAIN carts )
    => LET base == reqs[r1].snap.items
           c == carts[reqs[r1].snap.id]
       IN \E order \in {<<r1, r2>>, <<r2, r1>>} :
            LET final == ReqEffect(order[2], ReqEffect(order[1], base))
            IN c.items = final /\ Totals(c) = calcPrice(final)

\* C2: a cart is owned by a session or by a user, never both: the cart a
\* lookup hands to an anonymous browser holding a cookie is no user's cart,
\* and a cart gets a user only in a sign-in step.
C2_OwnedByOne ==
  \A b \in Browsers :
    (session[b] = None /\ cookie[b] # NoCookie)
    => \A c \in getMyCart(None, cookie[b]) \ {NoCart} : carts[c].userId = None

C2_Ownership ==
  [][ /\ C2_OwnedByOne'
      /\ \A c \in (DOMAIN carts) \cap (DOMAIN carts') :
           (carts[c].userId = None /\ carts'[c].userId # None)
           => \E b \in Browsers, u \in Users : SignInStep(b, u) ]_vars

\* C3: once a sign-in of u with cookie S has claimed or merged the cart of S,
\* a later sign-in of u with S (no cart action in between) leaves u's cart
\* record in place with the same items and totals.
C3_MergeOnce ==
  [][ \A b \in Browsers, u \in Users :
        (SignInStep(b, u) /\ <<cookie[b], u>> \in claimed)
        => \E c \in UserCarts(u) :
             /\ c \in DOMAIN carts'
             /\ carts'[c].userId = u
             /\ carts'[c].items = carts[c].items
             /\ Totals(carts'[c]) = Totals(carts[c]) ]_vars

\* C4: the four totals of every persisted cart are calcPrice of its items.
C4_TotalsFromItems ==
  \A c \in DOMAIN carts : Totals(carts[c]) = calcPrice(carts[c].items)

\* C5: no persisted cart has two lines for one product.
C5_OneLinePerProduct ==
  \A c \in DOMAIN carts : \A p \in Products : LinesOf(carts[c].items, p) <= 1

\* A merge has just summed the quantities of a product both carts held.
C5_Witness ==
  /\ last = Last("signIn", TRUE, "merge")
  /\ \E c \in DOMAIN carts :
       Len(carts[c].items) = 2 /\ \E i \in 1 .. 2 : carts[c].items[i].qty >= 3

\* C6: a sign-in that finds a session cart and a distinct user cart leaves the
\* user cart with one line per product of either cart, carrying the sum of
\* the two quantities, with the totals calcPrice gives for that list, and
\* deletes the session cart.
C6_MergeSums ==
  [][ \A b \in Browsers, u \in Users :
        ( /\ SignInStep(b, u)
          /\ cookie[b] # NoCookie
          /\ SessionCarts(cookie[b]) # {}
          /\ UserCarts(u) # {}
          /\ SessionCarts(cookie[b]) \cap UserCarts(u) = {} )
        => \E sc \in SessionCarts(cookie[b]), uc \in UserCarts(u) :
             /\ sc \notin DOMAIN carts'
             /\ uc \in DOMAIN carts'
             /\ \A p \in Products :
                  /\ QtyOf(carts'[uc].items, p)
                       = QtyOf(carts[sc].items, p) + QtyOf(carts[uc].items, p)
                  /\ LinesOf(carts'[uc].items, p)
                       = IF LinesOf(carts[sc].items, p) + LinesOf(carts[uc].items, p) > 0
                         THEN 1 ELSE 0
             /\ Len(carts'[uc].items) = Cardinality({p \in Products :
                  LinesOf(carts[sc].items, p) + LinesOf(carts[uc].items, p) > 0})
             /\ Totals(carts'[uc]) = calcPrice(carts'[uc].items) ]_vars

\* The example: session [A x2 @10.00] merged into user [A x1 @10.00, B x1 @5.00]
\* gave [A x3, B x1] with 35.00 / 10.00 / 5.25 / 50.25, and one cart is left.
C6_Example ==
  /\ last = Last("signIn", TRUE, "merge")
  /\ Cardinality(DOMAIN carts) = 1
  /\ \E c \in DOMAIN carts :
       /\ carts[c].items = << [product |-> "A", qty |-> 3, price |-> 1000],
                              [product |-> "B", qty |-> 1, price |-> 500] >>
       /\ Totals(carts[c]) = [itemsPrice |-> 3500, shippingPrice |-> 1000,
                              taxPrice |-> 525, totalPrice |-> 5025]

\* C7: the merge is all-or-nothing.  While the transaction runs none of its
\* statements changes the store; when it commits a merge the user cart gets
\* the merged items and totals and the session cart goes in the same step;
\* when a statement fails the store is left as it was.
C7_AllOrNothing ==
  [][ (tx.pc \in {"found", "updated", "commit"} /\ tx' # tx)
      => IF tx.pc = "commit" /\ last' = Last("signIn", TRUE, MergeKind(tx.sc, tx.uc))
         THEN MergeKind(tx.sc, tx.uc) = "merge"
              => /\ tx.sc \notin DOMAIN carts'
                 /\ tx.uc # tx.sc
                    => /\ carts'[tx.uc].items = tx.items
                       /\ Totals(carts'[tx.uc]) = MergeTotals(tx.items)
         ELSE carts' = carts ]_vars

\* A merge has committed.
C7_Witness ==
  /\ tx.pc = "closed"
  /\ last = Last("signIn", TRUE, "merge")
  /\ \E c \in DOMAIN carts : \E i \in 1 .. Len(carts[c].items) : carts[c].items[i].qty >= 2

\* C8: a sign-in that finds a session cart and no cart of the user gives that
\* same record to the user, items and totals as they were, creates and
\* deletes nothing, and the user's next lookup returns it; a sign-in that
\* finds no session cart leaves the store as it was.
C8_Claim ==
  [][ \A b \in Browsers, u \in Users :
        SignInStep(b, u)
        => IF cookie[b] = NoCookie \/ SessionCarts(cookie[b]) = {}
           THEN carts' = carts
           ELSE UserCarts(u) = {}
                => \E sc \in SessionCarts(cookie[b]) :
                     /\ carts' = [carts EXCEPT ![sc].userId = u]
                     /\ getMyCart(u, cookie[b])' = {sc} ]_vars

\* A sign-in has just claimed the session cart of its browser.
C8_Witness ==
  /\ last = Last("signIn", TRUE, "claim")
  /\ \E b \in Browsers :
       /\ session[b] # None
       /\ \E c \in DOMAIN carts :
            carts[c].sessionId = cookie[b] /\ carts[c].userId = session[b]

\* The quantity addItemToCart(p, q) of browser b would add exceeds the stock:
\* q for a new line or a new cart, the line's qty + 1 for an existing line.
Exceeds(b, p, q) ==
  \A c \in getMyCart(session[b], cookie[b]) :
    IF c = NoCart THEN q > Stock[p]
    ELSE LET i == findIndex(carts[c].items, p)
         IN IF i = 0 THEN q > Stock[p] ELSE carts[c].items[i].qty + 1 > Stock[p]

\* C9: an addItemToCart that would add more than the stock returns
\* success = false and leaves the store as it was.
C9_StockRefused ==
  [][ \A b \in Browsers, p \in Products, q \in QtyInputs :
        (AddItemToCart(b, p, q) /\ Exceeds(b, p, q))
        => (~last'.ok /\ carts' = carts) ]_vars

\* C10: for any caller with no cart, addItemToCart(p, 1) twice (stock >= 2)
\* succeeds twice and leaves the caller one cart with one line of qty 2: the
\* first call leaves the caller one cart holding [p x1], the second call
\* turns that cart into [p x2] and creates none.
C10_AddTwice ==
  [][ \A b \in Browsers, p \in {x \in Products : Stock[x] >= 2} :
        AddItemToCart(b, p, 1)
        => /\ getMyCart(session[b], cookie[b]) = {NoCart}
              => /\ last'.ok
                 /\ Cardinality(DOMAIN carts') = Cardinality(DOMAIN carts) + 1
                 /\ \E c \in DOMAIN carts' :
                      /\ getMyCart(session[b], cookie[b])' = {c}
                      /\ carts'[c].items = <<Item(p, 1)>>
           /\ \A c \in DOMAIN carts :
                (getMyCart(session[b], cookie[b]) = {c} /\ carts[c].items = <<Item(p, 1)>>)
                => /\ last'.ok
                   /\ DOMAIN carts' = DOMAIN carts
                   /\ getMyCart(session[b], cookie[b])' = {c}
                   /\ carts'[c].items = <<Item(p, 2)>> ]_vars

\* The carts the lookup of browser b's caller may return.
MyCarts(b) == getMyCart(session[b], cookie[b])

\* A session id that no browser holds and no cart record carries yet.
Fresh(sid) ==
  /\ sid # NoCookie
  /\ \A b \in Browsers : cookie[b] # sid
  /\ \A c \in DOMAIN carts : carts[c].sessionId # sid

\* C11: addItemToCart with a valid item of an existing product, by a caller
\* with no cart, returns success = true and creates exactly one cart record:
\* items = [item], sessionId the caller's cookie (a fresh id when the caller
\* has none), userId the caller's user (absent when anonymous), totals
\* calcPrice([item]); every other record is left as it was.
C11_CreateCart ==
  [][ \A b \in Browsers, p \in Products, q \in QtyInputs :
        (AddItemToCart(b, p, q) /\ MyCarts(b) = {NoCart})
        => /\ last'.ok
           /\ \E id \in (DOMAIN carts') \ (DOMAIN carts) :
                /\ DOMAIN carts' = (DOMAIN carts) \cup {id}
                /\ \A c \in DOMAIN carts : carts'[c] = carts[c]
                /\ carts'[id].items = <<Item(p, q)>>
                /\ carts'[id].userId = session[b]
                /\ IF cookie[b] # NoCookie THEN carts'[id].sessionId = cookie[b]
                   ELSE Fresh(carts'[id].sessionId)
                /\ Totals(carts'[id]) = calcPrice(<<Item(p, q)>>) ]_vars

\* The line of product p in the cart every lookup of b's caller returns holds
\* fewer units than the stock.
CanIncrement(b, p) ==
  /\ NoCart \notin MyCarts(b)
  /\ \A c \in MyCarts(b) :
       LET i == findIndex(carts[c].items, p)
       IN i # 0 /\ Stock[p] >= carts[c].items[i].qty + 1

Without(items, i) == SubSeq(items, 1, i - 1) \o SubSeq(items, i + 1, Len(items))

\* C13: a successful removeItemFromCart(p) takes the line of p out of the
\* caller's cart when its qty is 1 and lowers its qty by exactly 1 otherwise;
\* the other lines keep product, qty, price and order, and no other cart
\* record changes.
C13_RemoveOne ==
  [][ \A b \in Browsers, p \in Products :
        (RemoveItemFromCart(b, p) /\ last'.ok)
        => \E c \in MyCarts(b) \ {NoCart} :
             LET old == carts[c].items
                 i == findIndex(old, p)
             IN /\ i # 0
                /\ DOMAIN carts' = DOMAIN carts
                /\ \A d \in (DOMAIN carts) \ {c} : carts'[d] = carts[d]
                /\ carts'[c].sessionId = carts[c].sessionId
                /\ carts'[c].userId = carts[c].userId
                /\ carts'[c].items = IF old[i].qty = 1 THEN Without(old, i)
                                     ELSE [old EXCEPT ![i].qty = old[i].qty - 1] ]_vars

\* A remove has just succeeded and left its cart the one line [B x1].
C13_Witness ==
  /\ last = Last("remove", TRUE, "remove")
  /\ \E c \in DOMAIN carts : carts[c].items = <<Item("B", 1)>>

\* No lookup of b's caller returns a cart with a line of product p.
NothingToRemove(b, p) ==
  \A c \in MyCarts(b) : c = NoCart \/ findIndex(carts[c].items, p) = 0

\* C14: removeItemFromCart(p) by a caller with no cart, or whose cart has no
\* line of p, returns success = false and leaves the store as it was.
C14_RemoveNotFound ==
  [][ \A b \in Browsers, p \in Products :
        (RemoveItemFromCart(b, p) /\ NothingToRemove(b, p))
        => (~last'.ok /\ carts' = carts /\ nextId' = nextId) ]_vars

\* A remove of a product that the caller's cart does not hold has failed.
C14_Witness ==
  /\ last = Last("remove", FALSE, "no-item")
  /\ \E c \in DOMAIN carts : carts[c].items # <<>>

\* C15: no persisted cart has an empty item list (a cart whose last line is
\* removed is deleted).
C15_NoEmptyCart ==
  \A c \in DOMAIN carts : carts[c].items # <<>>

\* C16: every line of every persisted cart has qty >= 0, whatever items that
\* cartItemSchema accepts were added, removed and merged.
C16_QtyNonNegative ==
  \A c \in DOMAIN carts :
    \A i \in 1 .. Len(carts[c].items) : carts[c].items[i].qty >= 0

\* C17: in every state, for a caller with a user id for which a user cart
\* exists, getMyCart returns a cart of that user, whatever the caller's
\* sessionCartId cookie is and whatever cart carries that session id.
C17_UserCartFirst ==
  \A b \in Browsers :
    (session[b] # None /\ UserCarts(session[b]) # {})
    => /\ ~LookupThrows(b)
       /\ MyCarts(b) \subseteq UserCarts(session[b])

\* C18: no public cart operation lets an error through to its caller: the
\* last completed addItemToCart, removeItemFromCart or getMyCart returned.
C18_NeverRaises ==
  last.op \in {"add", "remove", "getMyCart"} => last.kind # "throw"

RefItemsPrice(items) ==
  LET RECURSIVE Upto(_)
      Upto(n) == IF n = 0 THEN 0 ELSE items[n].price * items[n].qty + Upto(n - 1)
  IN Upto(Len(items))

RefTax(amount) == (15 * amount + 50) \div 100

\* C20: for every item list, the totals the Pricing Engine persists have
\* itemsPrice the sum of price times qty, taxPrice 15% of itemsPrice rounded
\* to the nearest cent with ties rounded up, and totalPrice the sum of
\* itemsPrice, taxPrice and shippingPrice.
C20_TaxAndTotal ==
  \A c \in DOMAIN carts :
    /\ carts[c].itemsPrice = RefItemsPrice(carts[c].items)
    /\ carts[c].taxPrice = RefTax(carts[c].itemsPrice)
    /\ carts[c].totalPrice
         = carts[c].itemsPrice + carts[c].taxPrice + carts[c].shippingPrice

\* The units of product p in cart record c of store st (0 when there is no
\* such record).
UnitsIn(st, c, p) == IF c \in DOMAIN st THEN QtyOf(st[c].items, p) ELSE 0

\* The products a step changes the persisted quantity of, in some cart.
Affected ==
  {p \in Products :
     \E c \in (DOMAIN carts) \cup (DOMAIN carts') : UnitsIn(carts, c, p) # UnitsIn(carts', c, p)}

\* C21: every call that persists a change to a cart's lines (an add, a remove
\* or a sign-in merge) emits the revalidation signal of each product it
\* affected, and a call emits a signal only when it has written and returns
\* success = true.
C21_Revalidation ==
  [][ /\ Affected \subseteq revalidated'
      /\ revalidated' # {} => (last'.ok /\ last'.op \in {"add", "remove"}) ]_vars

\* C22: a sign-in of user V leaves every cart whose userId is another user
\* in place, with the owner, items and totals it had, whatever cookie V's
\* browser carries.
C22_OthersCartKept ==
  [][ \A b \in Browsers, v \in Accounts :
        SignInStep(b, v)
        => \A c \in DOMAIN carts :
             (carts[c].userId # None /\ carts[c].userId # v)
             => (c \in DOMAIN carts' /\ carts'[c] = carts[c]) ]_vars

\* C23: in every state, two requests of one caller running at once included,
\* no two cart records carry the same sessionId and no two carry the same
\* userId.
C23_OneCartPerOwner ==
  \A c, d \in DOMAIN carts :
    c # d => /\ carts[c].sessionId # carts[d].sessionId
             /\ carts[c].userId # None => carts[c].userId # carts[d].userId

\* C24: the stock being constant, every line of every persisted cart holds
\* at most the stock of its product, whatever adds, removes and sign-in merges
\* were made.
C24_WithinStock ==
  \A c \in DOMAIN carts :
    \A i \in 1 .. Len(carts[c].items) :
      carts[c].items[i].qty <= Stock[carts[c].items[i].product]

\* C25: an addItemToCart or removeItemFromCart call that returns
\* success = false (invalid item, unknown product, no cart, no such line, not
\* enough stock, or the store failing at its write) leaves every cart record
\* as it was and creates none.
C25_FailureWritesNothing ==
  [][ (last'.op \in {"add", "remove"} /\ ~last'.ok)
      => (carts' = carts /\ nextId' = nextId) ]_vars

\* An add of a product whose line already holds the whole stock has failed.
C25_Witness ==
  /\ last = Last("add", FALSE, "stock")
  /\ \E c \in DOMAIN carts :
       \E i \in 1 .. Len(carts[c].items) :
         carts[c].items[i].qty = Stock[carts[c].items[i].product]

====
